---- MODULE Spec2Model ----
(***************************************************************************)
(* Model of PostProcessing/PostProcessVideos.py (RecSyncNG): the batch     *)
(* pipeline main() - scan, repair, common interval, trim, size check,      *)
(* per-device video composition - and of the helpers it imports from the   *)
(* dataframes and video modules.                                           *)
(***************************************************************************)
EXTENDS Integers, Sequences, FiniteSets, TLC

\* ------------------------------------------------------------------ bounds
MaxClients == 2      \* entries of the session directory of a batch
MaxBatchLen == 3     \* rows of a raw timestamp table of a batch
MaxBatchTime == 3    \* largest timestamp of a raw table of a batch
MaxLen == 5          \* rows of the raw timestamp table of a single device
MaxTime == 6         \* largest timestamp of the raw table of a single device

\* ------------------------------------------------------- program constants
DEFAULT_THRESHOLD_MILLIS == 10
DEFAULT_THRESHOLD_NANOS == DEFAULT_THRESHOLD_MILLIS * 1000 * 1000

VARIABLES
    input_dir,           \* the entries of the session directory, in iterdir() order
    threshold_ns,        \* main's third argument
    pc,                  \* position in main
    clientIDs,           \* sequence of client IDs (index of the entry in input_dir)
    df_list,             \* raw tables, in clientIDs order
    mp4_list,            \* source videos, in clientIDs order
    repaired_df_list,    \* repaired tables, in clientIDs order
    time_steps,          \* the time step inferred for each repaired table
    min_common,          \* start of the common interval
    max_common,          \* end of the common interval
    trimmed_dataframes,  \* trimmed tables, in clientIDs order
    i,                   \* index of the composition loop (1-based)
    tmp_dirs,            \* existing temporary directories: cID -> staged frames
    out_videos,          \* output directory: cID -> written video
    out_csvs,            \* output directory: cID -> written sidecar table
    err                  \* the exception that ended main, or NoError

vars == <<input_dir, threshold_ns, pc, clientIDs, df_list, mp4_list,
          repaired_df_list, time_steps, min_common, max_common,
          trimmed_dataframes, i, tmp_dirs, out_videos, out_csvs, err>>

\* ------------------------------------------------------------ small helpers
Range(s) == {s[k] : k \in DOMAIN s}

Max2(a, b) == IF a >= b THEN a ELSE b

Min2(a, b) == IF a <= b THEN a ELSE b

\* the empty mapping (an empty directory)
EmptyMap == [k \in {} |-> 0]

\* mapping m with key k set to v
Put(m, k, v) == [x \in (DOMAIN m) \cup {k} |-> IF x = k THEN v ELSE m[x]]

\* mapping m without key k
Drop(m, k) == [x \in (DOMAIN m) \ {k} |-> m[x]]

\* the elements of a finite set of integers as an ascending sequence
RECURSIVE SortedSeq(_)
SortedSeq(S) ==
    IF S = {} THEN <<>>
    ELSE LET m == CHOOSE x \in S : \A y \in S : x <= y
         IN <<m>> \o SortedSeq(S \ {m})

\* timestamps of a table, as a sequence
Timestamps(df) == [k \in DOMAIN df |-> df[k].timestamp_ns]

\* a raw table (two columns, no header) from a sequence of timestamps;
\* frame_index is the 0-based ordinal of the row
RawTable(ts) == [k \in DOMAIN ts |-> [frame_index |-> k - 1, timestamp_ns |-> ts[k]]]

NoError == [kind |-> "none", client |-> 0, hint |-> "none"]

Error(kind, cID, hint) == [kind |-> kind, client |-> cID, hint |-> hint]

\* ---------------------------------------------- dataframes: TimestampRepairer
\* differences between consecutive timestamps of a table
Diffs(df) == [k \in 1..(Len(df) - 1) |-> df[k + 1].timestamp_ns - df[k].timestamp_ns]

\* number of occurrences of d in the sequence ds
Count(d, ds) == Cardinality({k \in DOMAIN ds : ds[k] = d})

\* the most frequent values of ds
Modes(ds) == {d \in Range(ds) : \A e \in Range(ds) : Count(e, ds) <= Count(d, ds)}

\* the k-th smallest value of ds (1-based, with repetitions)
Kth(ds, k) ==
    CHOOSE v \in Range(ds) :
        /\ Cardinality({j \in DOMAIN ds : ds[j] < v}) < k
        /\ k <= Cardinality({j \in DOMAIN ds : ds[j] <= v})

\* the middle values of ds (one value when Len(ds) is odd)
Medians(ds) == {Kth(ds, (Len(ds) + 1) \div 2), Kth(ds, (Len(ds) \div 2) + 1)}

\* a table with fewer than 2 records yields no interval
CanInferStep(df) == Len(df) >= 2

\* the nominal inter-frame interval: a robust typical difference (most
\* frequent or middle value, never the arithmetic mean); the set of the
\* estimates an implementation may return
compute_time_step(df) == Modes(Diffs(df)) \cup Medians(Diffs(df))

\* Python's round(a / b) for a >= 0, b > 0: ties go to the even integer
PyRound(a, b) ==
    LET q == a \div b
        r == a % b
    IN IF 2 * r < b THEN q
       ELSE IF 2 * r > b THEN q + 1
       ELSE IF q % 2 = 0 THEN q ELSE q + 1

OriginalRecord(rec) ==
    [frame_index |-> rec.frame_index, timestamp_ns |-> rec.timestamp_ns, synthesized |-> FALSE]

SyntheticRecord(t) ==
    [frame_index |-> -1, timestamp_ns |-> t, synthesized |-> TRUE]

\* the records emitted for the pair (prev, next): the synthetic records that
\* close the gap, if it is beyond tolerance, and then the original next
RepairPair(prev, next, time_step) ==
    LET gap == next.timestamp_ns - prev.timestamp_ns
        missing == PyRound(gap, time_step) - 1
    IN IF 2 * gap < 3 * time_step
       THEN <<OriginalRecord(next)>>
       ELSE [j \in 1..missing |-> SyntheticRecord(prev.timestamp_ns + j * time_step)]
            \o <<OriginalRecord(next)>>

\* walk of the raw table from row k on
RECURSIVE RepairFrom(_, _, _)
RepairFrom(df, k, time_step) ==
    IF k >= Len(df) THEN <<>>
    ELSE RepairPair(df[k], df[k + 1], time_step) \o RepairFrom(df, k + 1, time_step)

\* the repaired copy of a raw table
repair_dropped_frames(df, time_step) ==
    IF Len(df) = 0 THEN <<>>
    ELSE <<OriginalRecord(df[1])>> \o RepairFrom(df, 1, time_step)

\* ------------------------------------------------ dataframes: IntervalResolver
\* fold over the tables in list order: largest first timestamp, smallest last
RECURSIVE TimeRangeFold(_, _, _)
TimeRangeFold(dfs, lo, hi) ==
    IF dfs = <<>> THEN <<lo, hi>>
    ELSE LET df == Head(dfs)
         IN TimeRangeFold(Tail(dfs),
                          Max2(lo, df[1].timestamp_ns),
                          Min2(hi, df[Len(df)].timestamp_ns))

\* <<start_ns, end_ns>> of a non-empty list of non-empty tables
compute_time_range(dfs) ==
    TimeRangeFold(Tail(dfs), dfs[1][1].timestamp_ns, dfs[1][Len(dfs[1])].timestamp_ns)

\* mutant: an empty interval is returned like any other
EmptyOverlap_Never(range) == FALSE

\* the tables share no recording window
EmptyOverlap(range) == range[1] > range[2]

\* --------------------------------------------------- dataframes: StreamTrimmer
InInterval(rec, lo, hi) == lo <= rec.timestamp_ns /\ rec.timestamp_ns <= hi

\* the records of one table inside [lo, hi], in order
TrimTable(df, lo, hi) == SelectSeq(df, LAMBDA rec : InInterval(rec, lo, hi))

\* every table restricted to the common interval; the threshold takes no
\* part in the selection
trim_repaired_into_interval(dfs, lo, hi, threshold) ==
    [k \in DOMAIN dfs |-> TrimTable(dfs[k], lo, hi)]

\* ----------------------------------------------------- video: FrameCompositor
BlankFrame == [device |-> 0, position |-> 0]

\* the decoded frames of a source video: one per row of its timestamp trace
VideoFrames(video_file) == [p \in 1..video_file.frames |-> [device |-> video_file.device, position |-> p]]

\* staging area: the p-th decoded frame filed under the frame_index of the
\* p-th row of the original table
extract_frames(video_file, timestamps_df) ==
    [fi \in {timestamps_df[p].frame_index : p \in DOMAIN timestamps_df} |->
        VideoFrames(video_file)[CHOOSE p \in DOMAIN timestamps_df : timestamps_df[p].frame_index = fi]]

\* a non-synthesized record whose frame is not staged cannot be composed
MissingFrames(dir, frames) ==
    \E k \in DOMAIN frames : ~frames[k].synthesized /\ frames[k].frame_index \notin DOMAIN dir

\* one output frame per record, in table order: the staged original, or a
\* blank frame for a synthesized record
rebuild_video(dir, frames) ==
    [k \in DOMAIN frames |->
        IF frames[k].synthesized THEN BlankFrame ELSE dir[frames[k].frame_index]]

\* ------------------------------------------------------------------ inputs
\* the strictly increasing timestamp traces of at most maxLen rows over 0..maxTime
SmallTraces(maxLen, maxTime) ==
    {SortedSeq(S) : S \in {T \in SUBSET (0..maxTime) : Cardinality(T) \in 1..maxLen}}

\* the two devices of the documented end-to-end scenario
ScenarioA == <<0, 33333333, 100000000, 133333333>>

ScenarioB == <<1000, 33334333, 66667666, 133334333>>

\* traces of the devices of a batch
BatchTraces == SmallTraces(MaxBatchLen, MaxBatchTime) \cup {ScenarioA, ScenarioB}

\* traces of a device processed alone
Traces == SmallTraces(MaxLen, MaxTime) \cup {ScenarioA, ScenarioB}

\* an entry of the session directory: whether its name is a 16-digit
\* hexadecimal client ID, the CSV and MP4 files it holds, the rows of its CSV
DirEntry(is_client, csvs, mp4s, ts) ==
    [is_client |-> is_client, csvs |-> csvs, mp4s |-> mp4s, timestamps |-> ts]

\* client folders with one CSV and one MP4, client folders with a file
\* missing or in excess, and an entry that is no client folder
DirEntries ==
    {DirEntry(TRUE, 1, 1, ts) : ts \in BatchTraces}
    \cup {DirEntry(TRUE, c, 1, <<0, 1>>) : c \in {0, 2}}
    \cup {DirEntry(TRUE, 1, m, <<0, 1>>) : m \in {0, 2}}
    \cup {DirEntry(FALSE, 0, 0, <<>>)}

\* main is called with the default threshold
Thresholds == {DEFAULT_THRESHOLD_NANOS}

\* the state in which main starts
Start ==
    /\ threshold_ns \in Thresholds
    /\ pc = "scan"
    /\ clientIDs = <<>>
    /\ df_list = <<>>
    /\ mp4_list = <<>>
    /\ repaired_df_list = <<>>
    /\ time_steps = <<>>
    /\ min_common = 0
    /\ max_common = 0
    /\ trimmed_dataframes = <<>>
    /\ i = 0
    /\ tmp_dirs = EmptyMap
    /\ out_videos = EmptyMap
    /\ out_csvs = EmptyMap
    /\ err = NoError

\* a batch: a session directory of up to MaxClients entries
Init ==
    /\ input_dir \in UNION {[1..n -> DirEntries] : n \in 0..MaxClients}
    /\ Start

\* a session directory with the folder of a single device
InitRepair ==
    /\ input_dir \in {<<DirEntry(TRUE, 1, 1, ts)>> : ts \in Traces}
    /\ Start

\* main ends with an exception
Raise(e) ==
    /\ pc' = "error"
    /\ err' = e

\* ---------------------------------------------------------- scan_session_dir
\* the entries whose name matches the client ID pattern, in directory order
ClientsOf(dir) == SelectSeq([k \in DOMAIN dir |-> k], LAMBDA k : dir[k].is_client)

\* mutant: only missing files are rejected, the first of several is taken
FileCountOk_AtLeastOne(entry) == entry.csvs >= 1 /\ entry.mp4s >= 1

\* each client folder must hold exactly 1 CSV and 1 MP4
FileCountOk(entry) == entry.csvs = 1 /\ entry.mp4s = 1

ScanSessionDir ==
    /\ pc = "scan"
    /\ LET ids == ClientsOf(input_dir)
           bad == {k \in DOMAIN ids : ~FileCountOk(input_dir[ids[k]])}
       IN IF bad # {}
          THEN LET k == CHOOSE x \in bad : \A y \in bad : x <= y
               IN /\ Raise(Error("file_count", ids[k],
                                 IF input_dir[ids[k]].csvs # 1 THEN "csv" ELSE "mp4"))
                  /\ UNCHANGED <<clientIDs, df_list, mp4_list>>
          ELSE /\ clientIDs' = ids
               /\ df_list' = [k \in DOMAIN ids |-> RawTable(input_dir[ids[k]].timestamps)]
               /\ mp4_list' = [k \in DOMAIN ids |->
                                 [device |-> ids[k], frames |-> Len(input_dir[ids[k]].timestamps)]]
               /\ pc' = "repair"
               /\ UNCHANGED err
    /\ UNCHANGED <<input_dir, threshold_ns, repaired_df_list, time_steps, min_common,
                   max_common, trimmed_dataframes, i, tmp_dirs, out_videos, out_csvs>>

\* ------------------------------------------------------------ main: repair
\* mutant: the raw table is appended in place of the repaired one
RepairCSV_KeepsRaw ==
    /\ pc = "repair"
    /\ Len(repaired_df_list) < Len(clientIDs)
    /\ LET k == Len(repaired_df_list) + 1
           df == df_list[k]
       IN IF ~CanInferStep(df)
          THEN /\ Raise(Error("too_short", clientIDs[k], "none"))
               /\ UNCHANGED <<repaired_df_list, time_steps>>
          ELSE \E time_step \in compute_time_step(df) :
                  /\ repaired_df_list' =
                        Append(repaired_df_list, [r \in DOMAIN df |-> OriginalRecord(df[r])])
                  /\ time_steps' = Append(time_steps, time_step)
                  /\ UNCHANGED <<pc, err>>
    /\ UNCHANGED <<input_dir, threshold_ns, clientIDs, df_list, mp4_list, min_common,
                   max_common, trimmed_dataframes, i, tmp_dirs, out_videos, out_csvs>>

\* one iteration of the repair loop
RepairCSV ==
    /\ pc = "repair"
    /\ Len(repaired_df_list) < Len(clientIDs)
    /\ LET k == Len(repaired_df_list) + 1
           df == df_list[k]
       IN IF ~CanInferStep(df)
          THEN /\ Raise(Error("too_short", clientIDs[k], "none"))
               /\ UNCHANGED <<repaired_df_list, time_steps>>
          ELSE \E time_step \in compute_time_step(df) :
                  /\ repaired_df_list' =
                        Append(repaired_df_list, repair_dropped_frames(df, time_step))
                  /\ time_steps' = Append(time_steps, time_step)
                  /\ UNCHANGED <<pc, err>>
    /\ UNCHANGED <<input_dir, threshold_ns, clientIDs, df_list, mp4_list, min_common,
                   max_common, trimmed_dataframes, i, tmp_dirs, out_videos, out_csvs>>

\* -------------------------------------------------------------- main: trim
\* mutant: the two ends of the interval are unpacked in the wrong order
ComputeTimeRange_Swapped ==
    /\ pc = "repair"
    /\ Len(repaired_df_list) = Len(clientIDs)
    /\ Len(clientIDs) = Len(df_list) /\ Len(df_list) = Len(mp4_list)
    /\ IF repaired_df_list = <<>>
       THEN \* no client at all: the helper's result is not specified
            \/ /\ Raise(Error("empty_batch", 0, "none"))
               /\ UNCHANGED <<min_common, max_common>>
            \/ /\ pc' = "trim"
               /\ UNCHANGED <<min_common, max_common, err>>
       ELSE LET range == compute_time_range(repaired_df_list)
            IN IF EmptyOverlap(range)
               THEN /\ Raise(Error("empty_overlap", 0, "interval overlap"))
                    /\ UNCHANGED <<min_common, max_common>>
               ELSE /\ min_common' = range[2]
                    /\ max_common' = range[1]
                    /\ pc' = "trim"
                    /\ UNCHANGED err
    /\ UNCHANGED <<input_dir, threshold_ns, clientIDs, df_list, mp4_list, repaired_df_list,
                   time_steps, trimmed_dataframes, i, tmp_dirs, out_videos, out_csvs>>

\* the common interval of the repaired tables
ComputeTimeRange ==
    /\ pc = "repair"
    /\ Len(repaired_df_list) = Len(clientIDs)
    /\ Len(clientIDs) = Len(df_list) /\ Len(df_list) = Len(mp4_list)
    /\ IF repaired_df_list = <<>>
       THEN \* no client at all: the helper's result is not specified
            \/ /\ Raise(Error("empty_batch", 0, "none"))
               /\ UNCHANGED <<min_common, max_common>>
            \/ /\ pc' = "trim"
               /\ UNCHANGED <<min_common, max_common, err>>
       ELSE LET range == compute_time_range(repaired_df_list)
            IN IF EmptyOverlap(range)
               THEN /\ Raise(Error("empty_overlap", 0, "interval overlap"))
                    /\ UNCHANGED <<min_common, max_common>>
               ELSE /\ min_common' = range[1]
                    /\ max_common' = range[2]
                    /\ pc' = "trim"
                    /\ UNCHANGED err
    /\ UNCHANGED <<input_dir, threshold_ns, clientIDs, df_list, mp4_list, repaired_df_list,
                   time_steps, trimmed_dataframes, i, tmp_dirs, out_videos, out_csvs>>

\* the repaired tables trimmed to the common interval
TrimCSVs ==
    /\ pc = "trim"
    /\ trimmed_dataframes' =
          trim_repaired_into_interval(repaired_df_list, min_common, max_common, threshold_ns)
    /\ Len(clientIDs) = Len(trimmed_dataframes')
    /\ pc' = "check"
    /\ UNCHANGED <<input_dir, threshold_ns, clientIDs, df_list, mp4_list, repaired_df_list,
                   time_steps, min_common, max_common, i, tmp_dirs, out_videos, out_csvs, err>>

\* mutant: only a longer table is reported
SizeMismatch_Longer(client0size, dfsize) == client0size < dfsize

\* a trimmed table with another number of rows than the first client's
SizeMismatch(client0size, dfsize) == client0size # dfsize

\* all the trimmed tables must have as many rows as the first client's
CheckSizes ==
    /\ pc = "check"
    /\ IF clientIDs = <<>>
       THEN Raise(Error("index_error", 0, "none")) /\ UNCHANGED i
       ELSE LET client0size == Len(trimmed_dataframes[1])
                bad == {k \in 2..Len(clientIDs) :
                            SizeMismatch(client0size, Len(trimmed_dataframes[k]))}
            IN IF bad # {}
               THEN LET k == CHOOSE x \in bad : \A y \in bad : x <= y
                    IN Raise(Error("misaligned_trim", clientIDs[k], "threshold")) /\ UNCHANGED i
               ELSE /\ pc' = "compose"
                    /\ i' = 1
                    /\ UNCHANGED err
    /\ UNCHANGED <<input_dir, threshold_ns, clientIDs, df_list, mp4_list, repaired_df_list,
                   time_steps, min_common, max_common, trimmed_dataframes, tmp_dirs,
                   out_videos, out_csvs>>

\* ----------------------------------------------------------- main: compose
\* entering the with-block of one client: a fresh temporary directory
EnterTmpDir ==
    /\ pc = "compose"
    /\ i <= Len(clientIDs)
    /\ tmp_dirs' = Put(tmp_dirs, clientIDs[i], EmptyMap)
    /\ pc' = "extract"
    /\ UNCHANGED <<input_dir, threshold_ns, clientIDs, df_list, mp4_list, repaired_df_list,
                   time_steps, min_common, max_common, trimmed_dataframes, i, out_videos,
                   out_csvs, err>>

\* the frames of the original video unpacked into the temporary directory
ExtractFrames ==
    /\ pc = "extract"
    /\ tmp_dirs' = Put(tmp_dirs, clientIDs[i], extract_frames(mp4_list[i], df_list[i]))
    /\ pc' = "rebuild"
    /\ UNCHANGED <<input_dir, threshold_ns, clientIDs, df_list, mp4_list, repaired_df_list,
                   time_steps, min_common, max_common, trimmed_dataframes, i, out_videos,
                   out_csvs, err>>

\* mutant: the temporary directory is not removed on failure
ExtractFramesFails_KeepsTmp ==
    /\ pc = "extract"
    /\ UNCHANGED tmp_dirs
    /\ Raise(Error("io", clientIDs[i], "extract_frames"))
    /\ UNCHANGED <<input_dir, threshold_ns, clientIDs, df_list, mp4_list, repaired_df_list,
                   time_steps, min_common, max_common, trimmed_dataframes, i, out_videos,
                   out_csvs>>

\* decoding fails: the exception leaves the with-block, which removes the
\* temporary directory, and ends main
ExtractFramesFails ==
    /\ pc = "extract"
    /\ tmp_dirs' = Drop(tmp_dirs, clientIDs[i])
    /\ Raise(Error("io", clientIDs[i], "extract_frames"))
    /\ UNCHANGED <<input_dir, threshold_ns, clientIDs, df_list, mp4_list, repaired_df_list,
                   time_steps, min_common, max_common, trimmed_dataframes, i, out_videos,
                   out_csvs>>

\* mutant: every video is rebuilt from the first client's trimmed table
RebuildVideo_FirstTable ==
    /\ pc = "rebuild"
    /\ ~MissingFrames(tmp_dirs[clientIDs[i]], trimmed_dataframes[1])
    /\ out_videos' = Put(out_videos, clientIDs[i],
                         [complete |-> TRUE,
                          frames |-> rebuild_video(tmp_dirs[clientIDs[i]], trimmed_dataframes[1])])
    /\ pc' = "save_csv"
    /\ UNCHANGED <<input_dir, threshold_ns, clientIDs, df_list, mp4_list, repaired_df_list,
                   time_steps, min_common, max_common, trimmed_dataframes, i, tmp_dirs,
                   out_csvs, err>>

\* the output video written from the staged frames and the trimmed table
RebuildVideo ==
    /\ pc = "rebuild"
    /\ ~MissingFrames(tmp_dirs[clientIDs[i]], trimmed_dataframes[i])
    /\ out_videos' = Put(out_videos, clientIDs[i],
                         [complete |-> TRUE,
                          frames |-> rebuild_video(tmp_dirs[clientIDs[i]], trimmed_dataframes[i])])
    /\ pc' = "save_csv"
    /\ UNCHANGED <<input_dir, threshold_ns, clientIDs, df_list, mp4_list, repaired_df_list,
                   time_steps, min_common, max_common, trimmed_dataframes, i, tmp_dirs,
                   out_csvs, err>>

\* encoding fails (or a frame is missing): the file being written may or may
\* not be left behind, incomplete; the temporary directory is removed
RebuildVideoFails ==
    /\ pc = "rebuild"
    /\ \/ UNCHANGED out_videos
       \/ out_videos' = Put(out_videos, clientIDs[i], [complete |-> FALSE, frames |-> <<>>])
    /\ tmp_dirs' = Drop(tmp_dirs, clientIDs[i])
    /\ Raise(Error("io", clientIDs[i], "rebuild_video"))
    /\ UNCHANGED <<input_dir, threshold_ns, clientIDs, df_list, mp4_list, repaired_df_list,
                   time_steps, min_common, max_common, trimmed_dataframes, i, out_csvs>>

\* the trimmed table saved next to the video; the with-block ends
SaveCSV ==
    /\ pc = "save_csv"
    /\ out_csvs' = Put(out_csvs, clientIDs[i], trimmed_dataframes[i])
    /\ tmp_dirs' = Drop(tmp_dirs, clientIDs[i])
    /\ i' = i + 1
    /\ pc' = "compose"
    /\ UNCHANGED <<input_dir, threshold_ns, clientIDs, df_list, mp4_list, repaired_df_list,
                   time_steps, min_common, max_common, trimmed_dataframes, out_videos, err>>

\* the composition loop is over: main returns
Finish ==
    /\ pc = "compose"
    /\ i > Len(clientIDs)
    /\ pc' = "done"
    /\ UNCHANGED <<input_dir, threshold_ns, clientIDs, df_list, mp4_list, repaired_df_list,
                   time_steps, min_common, max_common, trimmed_dataframes, i, tmp_dirs,
                   out_videos, out_csvs, err>>

Next ==
    \/ ScanSessionDir
    \/ RepairCSV
    \/ ComputeTimeRange
    \/ TrimCSVs
    \/ CheckSizes
    \/ EnterTmpDir
    \/ ExtractFrames
    \/ ExtractFramesFails
    \/ RebuildVideo
    \/ RebuildVideoFails
    \/ SaveCSV
    \/ Finish

Spec == Init /\ [][Next]_vars

\* the pipeline run on single devices with longer traces
SpecRepair == InitRepair /\ [][Next]_vars

\* ============================================================== properties
\* position of client cID in clientIDs
IndexOf(cID) == CHOOSE k \in DOMAIN clientIDs : clientIDs[k] = cID

\* main has passed the check of the trimmed sizes
ComposeStages == {"compose", "extract", "rebuild", "save_csv", "done"}

\* trimming has run for all the devices of a batch of one or more devices
TrimmingDone ==
    /\ clientIDs # <<>>
    /\ Len(trimmed_dataframes) = Len(clientIDs)

SameLengths ==
    \A a, b \in DOMAIN trimmed_dataframes :
        Len(trimmed_dataframes[a]) = Len(trimmed_dataframes[b])

NoOutput == out_videos = EmptyMap /\ out_csvs = EmptyMap

Abs(x) == IF x < 0 THEN -x ELSE x

\* C1: once trimming has run for all devices and the sizes were checked,
\* either all trimmed tables have the same number of rows or main has failed
\* with the misaligned-trim error that suggests raising the threshold; main is
\* never in the composition loop while two trimmed tables differ in length.
C1_EqualLengthsOrMisalignedTrim ==
    /\ (TrimmingDone /\ pc # "check") =>
          \/ SameLengths
          \/ pc = "error" /\ err.kind = "misaligned_trim" /\ err.hint = "threshold"
    /\ (pc \in ComposeStages \/ ~NoOutput \/ tmp_dirs # EmptyMap) => SameLengths

C1_Witness ==
    /\ pc = "error"
    /\ err.kind = "misaligned_trim"
    /\ Len(clientIDs) >= 2
    /\ ~SameLengths

\* C2: whenever a batch passes the post-trim check, the timestamps of any two
\* devices at the same slot of their trimmed tables differ by at most
\* threshold_ns.
C2_SlotsWithinThreshold ==
    pc \in ComposeStages =>
        \A a, b \in DOMAIN trimmed_dataframes :
            \A k \in DOMAIN trimmed_dataframes[a] :
                Abs(trimmed_dataframes[a][k].timestamp_ns
                    - trimmed_dataframes[b][k].timestamp_ns) <= threshold_ns

\* the repaired tables have no common recording window: some table starts
\* after another one has ended
NoCommonWindow ==
    \E a, b \in DOMAIN repaired_df_list :
        repaired_df_list[a][1].timestamp_ns
            > repaired_df_list[b][Len(repaired_df_list[b])].timestamp_ns

\* every device has been repaired and main has gone past the interval resolution
RangeResolved ==
    /\ clientIDs # <<>>
    /\ Len(repaired_df_list) = Len(clientIDs)
    /\ pc # "repair"

\* C3: when the repaired tables have no common recording window, interval
\* resolution fails with the empty-overlap error and the batch stops: no
\* trimmed table is produced and nothing is written.
C3_EmptyOverlapIsFatal ==
    (RangeResolved /\ NoCommonWindow) =>
        /\ pc = "error"
        /\ err.kind = "empty_overlap"
        /\ trimmed_dataframes = <<>>
        /\ NoOutput
        /\ tmp_dirs = EmptyMap

C3_Witness ==
    /\ RangeResolved
    /\ NoCommonWindow
    /\ err.kind = "empty_overlap"

\* the timestamps ts are spaced by delta except for one gap of factor * delta
\* between positions pos and pos + 1
OneGap(ts, delta, factor, pos) ==
    /\ pos \in 1..(Len(ts) - 1)
    /\ factor >= 2
    /\ \A k \in 1..(Len(ts) - 1) :
          ts[k + 1] - ts[k] = (IF k = pos THEN factor * delta ELSE delta)

\* the repaired table rep closes the gap of the raw table df: factor - 1
\* synthesized records after position pos, every original kept and marked
\* synthesized = FALSE, all records delta apart
GapClosed(df, rep, delta, factor, pos) ==
    /\ Len(rep) = Len(df) + factor - 1
    /\ \A k \in 1..pos : rep[k] = OriginalRecord(df[k])
    /\ \A k \in (pos + 1)..(pos + factor - 1) : rep[k].synthesized
    /\ \A k \in (pos + factor)..Len(rep) : rep[k] = OriginalRecord(df[k - factor + 1])
    /\ \A k \in 1..(Len(rep) - 1) : rep[k + 1].timestamp_ns - rep[k].timestamp_ns = delta

GapFactors == 2..(MaxTime + 1)

\* the statement of C4 for the raw tables of at least minLen records
GapRepaired(minLen) ==
    \A d \in DOMAIN repaired_df_list :
        \A delta \in 1..(MaxTime + 1), factor \in GapFactors, pos \in 1..MaxLen :
            (Len(df_list[d]) >= minLen
             /\ OneGap(Timestamps(df_list[d]), delta, factor, pos))
                => GapClosed(df_list[d], repaired_df_list[d], delta, factor, pos)

\* C4 (as stated): for every raw sequence spaced by delta except for one gap
\* of exactly k * delta, repair inserts exactly k - 1 synthesized records in
\* the gap, delta apart, keeps every original record, and the result is
\* strictly increasing.
C4_OneGapRepaired_AsStated == GapRepaired(3)

\* C4 (amended): the same for raw sequences of at least 4 records, in which
\* delta is both the most frequent and the middle difference.
C4_OneGapRepaired == GapRepaired(4)

C4_Witness ==
    \E d \in DOMAIN repaired_df_list :
        /\ Len(df_list[d]) >= 4
        /\ \E delta \in 1..(MaxTime + 1), factor \in GapFactors, pos \in 1..MaxLen :
              OneGap(Timestamps(df_list[d]), delta, factor, pos)
        /\ \E k \in DOMAIN repaired_df_list[d] : repaired_df_list[d][k].synthesized

\* C5: the repaired table of a raw table of at least 2 strictly increasing
\* timestamps is strictly increasing, and no two consecutive repaired
\* timestamps differ by more than 1.5 times the inferred interval.
C5_RepairedIncreasingAndDense ==
    \A d \in DOMAIN repaired_df_list :
        LET rep == repaired_df_list[d]
        IN /\ time_steps[d] \in compute_time_step(df_list[d])
           /\ \A k \in 1..(Len(rep) - 1) :
                 /\ rep[k].timestamp_ns < rep[k + 1].timestamp_ns
                 /\ 2 * (rep[k + 1].timestamp_ns - rep[k].timestamp_ns) <= 3 * time_steps[d]

\* a raw table with a gap and with jitter has been repaired
C5_Witness ==
    \E d \in DOMAIN repaired_df_list :
        /\ \E k \in DOMAIN repaired_df_list[d] : repaired_df_list[d][k].synthesized
        /\ Cardinality(Range(Diffs(df_list[d]))) >= 3

SynthesizedCount(df) == Cardinality({k \in DOMAIN df : df[k].synthesized})

ScenarioARepaired == <<0, 33333333, 66666666, 100000000, 133333333>>

\* the statement of C6 with n synthesized entries
ScenarioRepair(n) ==
    \A d \in DOMAIN repaired_df_list :
        Timestamps(df_list[d]) = ScenarioA =>
            /\ time_steps[d] = 33333333
            /\ Timestamps(repaired_df_list[d]) = ScenarioARepaired
            /\ SynthesizedCount(repaired_df_list[d]) = n

\* C6 (as stated): device A of the scenario is repaired to the 5 entries
\* 0, 33333333, 66666666, 100000000, 133333333, 2 of them synthesized.
C6_ScenarioRepair_AsStated == ScenarioRepair(2)

\* C6 (amended): the same 5 entries, exactly 1 of them synthesized.
C6_ScenarioRepair == ScenarioRepair(1)

C6_Witness ==
    \E d \in DOMAIN repaired_df_list :
        /\ Timestamps(df_list[d]) = ScenarioA
        /\ Len(repaired_df_list[d]) = 5

\* the frame expected at the slot of record rec in the output of client cID
ExpectedFrame(cID, rec) ==
    IF rec.synthesized THEN BlankFrame
    ELSE [device |-> cID, position |-> rec.frame_index + 1]

\* the complete output video of the k-th client, as the trimmed table dictates
ExpectedVideo(k) ==
    [complete |-> TRUE,
     frames |-> [j \in DOMAIN trimmed_dataframes[k] |->
                    ExpectedFrame(clientIDs[k], trimmed_dataframes[k][j])]]

\* C7: for every device whose composition completed, the output video has one
\* frame per trimmed record, in order: the original frame of the record's
\* frame_index, or a blank frame for a synthesized record; every original
\* frame of the common interval appears exactly once.
C7_OutputFollowsTrimmedTable ==
    \A cID \in DOMAIN out_csvs :
        LET k == IndexOf(cID)
            v == out_videos[cID].frames
        IN /\ out_videos[cID].complete
           /\ Len(v) = Len(trimmed_dataframes[k])
           /\ \A j \in DOMAIN v : v[j] = ExpectedFrame(cID, trimmed_dataframes[k][j])
           /\ \A p \in DOMAIN df_list[k] :
                 (min_common <= df_list[k][p].timestamp_ns
                  /\ df_list[k][p].timestamp_ns <= max_common)
                    => Cardinality({j \in DOMAIN v : v[j] = [device |-> cID, position |-> p]}) = 1

\* two devices composed, one of them with a blank frame between originals
C7_Witness ==
    /\ pc = "done"
    /\ Cardinality(DOMAIN out_csvs) >= 2
    /\ \E cID \in DOMAIN out_csvs :
          \E j \in DOMAIN out_videos[cID].frames :
              /\ out_videos[cID].frames[j] = BlankFrame
              /\ j > 1

\* input-shape and temporal-consistency errors
FatalKinds == {"file_count", "too_short", "empty_overlap", "misaligned_trim"}

\* every client folder holds exactly 1 CSV and 1 MP4 and a table of 2 rows or more
InputShapeOk ==
    \A k \in DOMAIN input_dir :
        input_dir[k].is_client =>
            /\ input_dir[k].csvs = 1
            /\ input_dir[k].mp4s = 1
            /\ Len(input_dir[k].timestamps) >= 2

\* C8: a run that meets an input-shape error or a temporal-consistency error
\* aborts with no output video and no output CSV: an output artifact exists
\* only when every device has passed every such check.
C8_FatalErrorsBeforeAnyOutput ==
    /\ err.kind \in FatalKinds => (NoOutput /\ tmp_dirs = EmptyMap)
    /\ (~NoOutput \/ tmp_dirs # EmptyMap) =>
          /\ InputShapeOk
          /\ RangeResolved
          /\ ~NoCommonWindow
          /\ TrimmingDone
          /\ SameLengths

\* a later client fails a check after an earlier one was repaired
C8_Witness ==
    /\ pc = "error"
    /\ err.kind = "too_short"
    /\ Len(repaired_df_list) >= 1
    /\ NoOutput

\* the bijections of 1..n
Perms(n) == {f \in [1..n -> 1..n] : \A a, b \in 1..n : f[a] = f[b] => a = b}

\* C9: the common interval starts at the largest first repaired timestamp and
\* ends at the smallest last repaired timestamp, and every permutation of the
\* repaired tables yields the same interval, or the same failure.
C9_CommonIntervalOrderIndependent ==
    RangeResolved =>
        LET firsts == {repaired_df_list[d][1].timestamp_ns : d \in DOMAIN repaired_df_list}
            lasts == {repaired_df_list[d][Len(repaired_df_list[d])].timestamp_ns :
                         d \in DOMAIN repaired_df_list}
            failed == pc = "error" /\ err.kind = "empty_overlap"
        IN /\ ~failed =>
                 /\ min_common \in firsts /\ \A x \in firsts : x <= min_common
                 /\ max_common \in lasts /\ \A x \in lasts : max_common <= x
           /\ \A f \in Perms(Len(repaired_df_list)) :
                 LET range == compute_time_range([k \in DOMAIN repaired_df_list |->
                                                     repaired_df_list[f[k]]])
                 IN IF failed THEN EmptyOverlap(range)
                    ELSE range = <<min_common, max_common>>

\* two tables, neither containing the other, resolved to a common interval
C9_Witness ==
    /\ pc = "trim"
    /\ Len(repaired_df_list) >= 2
    /\ min_common < max_common
    /\ repaired_df_list[1][1].timestamp_ns # repaired_df_list[2][1].timestamp_ns
    /\ repaired_df_list[1][1].timestamp_ns = min_common
    /\ repaired_df_list[1][Len(repaired_df_list[1])].timestamp_ns # max_common

\* C10: when frame extraction or video rebuilding fails for a device, no
\* sidecar CSV and no complete video exist for it, the outputs of the devices
\* processed earlier are as they were written, and the device's temporary
\* directory is removed.
C10_FailedDeviceLeavesNoValidOutput ==
    (pc = "error" /\ err.kind = "io") =>
        LET k == IndexOf(err.client)
        IN /\ err.client \notin DOMAIN out_csvs
           /\ err.client \in DOMAIN out_videos => ~out_videos[err.client].complete
           /\ tmp_dirs = EmptyMap
           /\ \A d \in 1..(k - 1) :
                 /\ clientIDs[d] \in DOMAIN out_videos
                 /\ out_videos[clientIDs[d]] = ExpectedVideo(d)
                 /\ clientIDs[d] \in DOMAIN out_csvs
                 /\ out_csvs[clientIDs[d]] = trimmed_dataframes[d]

\* the second device fails in rebuild_video after the first was written
C10_Witness ==
    /\ pc = "error"
    /\ err.kind = "io"
    /\ err.hint = "rebuild_video"
    /\ IndexOf(err.client) >= 2
    /\ err.client \in DOMAIN out_videos

====
